---- MODULE Spec2Model ----
(***************************************************************************)
(* One invocation of the xfish request handler (src/main.rs): the request  *)
(* parameters are read, the drawing text is parsed into polylines, an X11  *)
(* connection is opened, a window and a graphics context are created and   *)
(* the event loop draws the polylines on every expose until a close        *)
(* request or a protocol error arrives.                                    *)
(*                                                                         *)
(* Text is a sequence of one-character strings.  An optional value is the  *)
(* empty sequence (None) or a one-element sequence (Some).                 *)
(***************************************************************************)
EXTENDS Integers, Sequences, FiniteSets, TLC

(***************************************************************************)
(* Bounds of the model.                                                    *)
(***************************************************************************)
\* events the server delivers during one invocation
MaxEvents == 3
\* events that may be waiting, delivered and not yet handled
MaxQueue == 2
\* characters of the address parameter
MaxAddrLen == 1

(***************************************************************************)
(* Program constants.                                                      *)
(***************************************************************************)
\* i16::MIN and i16::MAX, the range of the cast `i as i16`
I16Min == -32768
I16Max == 32767
\* the format the close request must have
CloseFormat == 32
\* StatusCode::BAD_REQUEST, and the status of a plain string response
BadRequest == 400
StatusOk == 200

(***************************************************************************)
(* Text helpers: str::split, str::trim, str::contains.                     *)
(***************************************************************************)
Whitespace == {" ", "\t", "\r"}

Digits == <<"0", "1", "2", "3", "4", "5", "6", "7", "8", "9">>

IsDigit(c) == \E k \in 1..10 : Digits[k] = c

DigitVal(c) == (CHOOSE k \in 1..10 : Digits[k] = c) - 1

\* str::contains for a one-character pattern
Contains(s, c) == \E k \in 1..Len(s) : s[k] = c

\* str::split for a one-character separator: k separators give k+1 pieces,
\* so the empty text gives one empty piece
RECURSIVE Split(_, _)
Split(s, sep) ==
    IF ~Contains(s, sep)
    THEN <<s>>
    ELSE LET k == CHOOSE k \in 1..Len(s) :
                      s[k] = sep /\ \A j \in 1..(k - 1) : s[j] # sep
         IN  <<SubSeq(s, 1, k - 1)>> \o Split(SubSeq(s, k + 1, Len(s)), sep)

\* str::trim
RECURSIVE TrimStart(_)
TrimStart(s) ==
    IF s # <<>> /\ Head(s) \in Whitespace THEN TrimStart(Tail(s)) ELSE s

RECURSIVE TrimEnd(_)
TrimEnd(s) ==
    IF s # <<>> /\ s[Len(s)] \in Whitespace
    THEN TrimEnd(SubSeq(s, 1, Len(s) - 1))
    ELSE s

Trim(s) == TrimEnd(TrimStart(s))

(***************************************************************************)
(* str::parse::<f64>.  The grammar is an optional sign followed by "inf",  *)
(* "nan" or a decimal with at least one digit; anything else is an error.  *)
(* A float is kept as its kind, its sign and the magnitude of its integer  *)
(* part, which is all the cast to i16 reads.  Exponents and the upper-case *)
(* spellings are not among the inputs of the model.                        *)
(***************************************************************************)
RECURSIVE DecimalValue(_)
DecimalValue(ds) ==
    IF ds = <<>> THEN 0
    ELSE 10 * DecimalValue(SubSeq(ds, 1, Len(ds) - 1)) + DigitVal(ds[Len(ds)])

AllDigits(s) == \A k \in 1..Len(s) : IsDigit(s[k])

ParseErr == [ok |-> FALSE, kind |-> "err", neg |-> FALSE, whole |-> 0]

ParseF64(s) ==
    LET signed == s # <<>> /\ Head(s) \in {"+", "-"}
        neg    == s # <<>> /\ Head(s) = "-"
        body   == IF signed THEN Tail(s) ELSE s
        parts  == Split(body, ".")
    IN  IF body = <<"i", "n", "f">>
        THEN [ok |-> TRUE, kind |-> "inf", neg |-> neg, whole |-> 0]
        ELSE IF body = <<"n", "a", "n">>
        THEN [ok |-> TRUE, kind |-> "nan", neg |-> neg, whole |-> 0]
        ELSE IF /\ Len(parts) <= 2
                /\ \A k \in 1..Len(parts) : AllDigits(parts[k])
                /\ \E k \in 1..Len(parts) : parts[k] # <<>>
        THEN [ok |-> TRUE, kind |-> "finite", neg |-> neg,
              whole |-> DecimalValue(parts[1])]
        ELSE ParseErr

\* the truncation toward zero of a finite float
Truncated(f) == IF f.neg THEN 0 - f.whole ELSE f.whole

\* `i as i16`: truncation toward zero, saturating at the ends of the range,
\* NaN to zero
AsI16(f) ==
    IF f.kind = "nan" THEN 0
    ELSE IF f.kind = "inf" THEN (IF f.neg THEN I16Min ELSE I16Max)
    ELSE IF Truncated(f) > I16Max THEN I16Max
    ELSE IF Truncated(f) < I16Min THEN I16Min
    ELSE Truncated(f)

(***************************************************************************)
(* The geometry parser (main.rs 66-77).                                    *)
(***************************************************************************)
\* filter_map: the tokens that parse, in order, each cast to i16
RECURSIVE FilterMapI16(_)
FilterMapI16(items) ==
    IF items = <<>> THEN <<>>
    ELSE LET f == ParseF64(Trim(Head(items)))
         IN  (IF f.ok THEN <<AsI16(f)>> ELSE <<>>) \o FilterMapI16(Tail(items))

RowValues(line) == FilterMapI16(Split(line, ","))

\* slice::chunks(2): the last chunk holds one value when the length is odd
Chunks2(vals) ==
    [k \in 1..((Len(vals) + 1) \div 2) |->
        SubSeq(vals, 2 * k - 1, IF 2 * k <= Len(vals) THEN 2 * k ELSE Len(vals))]

\* item[1] of a chunk of one value is out of bounds: the closure panics
RowPanics(line) == \E k \in 1..Len(Chunks2(RowValues(line))) :
                       Len(Chunks2(RowValues(line))[k]) < 2

RowPoints(line) ==
    LET chunks == Chunks2(RowValues(line))
    IN  [k \in 1..Len(chunks) |-> [x |-> chunks[k][1], y |-> chunks[k][2]]]

ParsePanics(text) ==
    \E r \in 1..Len(Split(text, "\n")) : RowPanics(Split(text, "\n")[r])

ParseFish(text) ==
    LET rows == Split(text, "\n")
    IN  [r \in 1..Len(rows) |-> RowPoints(rows[r])]

(***************************************************************************)
(* Inputs.  The address parameter is absent or a text over a host          *)
(* character and the display separator.  The drawing text comes from       *)
(* generate_csv() or from comeback.csv, neither of which is part of this   *)
(* source file: it is drawn from a set of texts written as rows of tokens. *)
(***************************************************************************)
RECURSIVE JoinWith(_, _)
JoinWith(pieces, sep) ==
    IF pieces = <<>> THEN <<>>
    ELSE IF Len(pieces) = 1 THEN pieces[1]
    ELSE pieces[1] \o <<sep>> \o JoinWith(Tail(pieces), sep)

\* rows of tokens as text: "," between tokens, "\n" between rows
Csv(rows) == JoinWith([r \in 1..Len(rows) |-> JoinWith(rows[r], ",")], "\n")

Tok0 == <<"0">>
Tok10 == <<"1", "0">>
TokWord == <<"x">>
TokPadded == <<" ", "7", " ">>
TokFraction == <<"-", "1", ".", "5">>
TokBig == <<"4", "0", "0", "0", "0">>
TokNegInf == <<"-", "i", "n", "f">>

\* "0,0,10,0,10,10\n": the example of the specification
ExampleText == Csv(<< <<Tok0, Tok0, Tok10, Tok0, Tok10, Tok10>>, <<>> >>)

Texts ==
    { <<>>,
      ExampleText,
      Csv(<< <<Tok0, Tok0, Tok10, Tok0, Tok10, Tok10>> >>),
      Csv(<< <<Tok0, TokWord, Tok10>> >>),
      Csv(<< <<TokPadded, TokFraction>>, <<TokBig, TokNegInf>> >>),
      Csv(<< <<Tok0, Tok0, Tok10>> >>),
      Csv(<< <<Tok0, TokWord, Tok10, Tok10>> >>) }

\* include_str!("../comeback.csv") and generate_csv(): some text
ComebackCsv == Texts

GenerateCsv == Texts

AddrChars == {"h", ":"}

RECURSIVE TextsUpTo(_, _)
TextsUpTo(chars, n) ==
    IF n = 0 THEN {<<>>}
    ELSE LET shorter == TextsUpTo(chars, n - 1)
         IN  shorter \cup {Append(t, c) : t \in shorter, c \in chars}

Addresses == TextsUpTo(AddrChars, MaxAddrLen)

\* params.first("address"): None or Some(address)
Requests == [address : {<<>>} \cup {<<a>> : a \in Addresses}]

\* values of the "time" parameter: absent, "bad", anything else
TimeParams == {<<>>, <<"bad">>, <<"11:11">>}

(***************************************************************************)
(* The X11 server as the program sees it.                                  *)
(***************************************************************************)
\* conn.setup(): the root window of the screen and the first identifier
\* generate_id hands out
Setup == [root |-> 1, resource_id_base |-> 100]

\* the reply to the atom_manager request (main.rs 18-25)
AtomTable == [UTF8_STRING |-> 301, WM_DELETE_WINDOW |-> 302,
              WM_PROTOCOLS |-> 303, NET_WM_NAME |-> 304]

\* AtomEnum::ATOM, STRING, WM_NAME
AtomEnum == [ATOM |-> 4, STRING |-> 31, WM_NAME |-> 39]

ErrorDetails == {"BadWindow", "BadGC"}

Event(type, format, window, data0, detail) ==
    [type |-> type, format |-> format, window |-> window, data0 |-> data0,
     detail |-> detail]

\* the events the server may deliver to a client that owns window win
ServerEvents(win) ==
    {Event("Expose", 0, win, 0, ""), Event("MapNotify", 0, win, 0, "")}
    \cup {Event("Error", 0, 0, 0, d) : d \in ErrorDetails}
    \cup {Event("ClientMessage", CloseFormat, win, AtomTable.WM_DELETE_WINDOW, ""),
          Event("ClientMessage", 8, win, AtomTable.WM_DELETE_WINDOW, ""),
          Event("ClientMessage", CloseFormat, Setup.root, AtomTable.WM_DELETE_WINDOW, ""),
          Event("ClientMessage", CloseFormat, win, AtomTable.WM_PROTOCOLS, "")}

Request(op, window, gc, arg) ==
    [op |-> op, window |-> window, gc |-> gc, arg |-> arg]

(***************************************************************************)
(* State.                                                                  *)
(***************************************************************************)
VARIABLES
    pc,        \* the statement the invocation is at
    request,   \* the query parameters of the request
    address,   \* the local `address`
    fish_str,  \* the drawing text
    fish,      \* the parsed drawing set
    connArg,   \* the addresses handed to connect(), one per call
    atoms,     \* None, or Some(resolved atom table)
    win_id,    \* None, or Some(window identifier)
    gc_id,     \* None, or Some(graphics context identifier)
    nextId,    \* the next identifier generate_id returns
    out,       \* requests issued and not yet flushed
    sent,      \* requests flushed to the server, in order
    queue,     \* events delivered by the server and not yet handled
    nArrived,  \* events delivered so far
    handled,   \* events wait_for_event has returned
    i,         \* index of the polyline the for loop is at
    sleeps,    \* pacing delays performed
    result,    \* None, or Some(result of handle_response)
    panic,     \* None, or Some(message of the panic that unwound the call)
    response,  \* None, or Some(response of handler)
    exposes    \* history: expose events the loop has matched (main.rs 106)

vars == <<pc, request, address, fish_str, fish, connArg, atoms, win_id, gc_id,
          nextId, out, sent, queue, nArrived, handled, i, sleeps, result,
          panic, response, exposes>>

Init ==
    /\ pc = "params"
    /\ request \in Requests
    /\ address = <<>>
    /\ fish_str = <<>>
    /\ fish = <<>>
    /\ connArg = <<>>
    /\ atoms = <<>>
    /\ win_id = <<>>
    /\ gc_id = <<>>
    /\ nextId = Setup.resource_id_base
    /\ out = <<>>
    /\ sent = <<>>
    /\ queue = <<>>
    /\ nArrived = 0
    /\ handled = 0
    /\ i = 0
    /\ sleeps = 0
    /\ result = <<>>
    /\ panic = <<>>
    /\ response = <<>>
    /\ exposes = 0

SuccessText == <<"Understandable, have a nice fish">>

OkResult == [ok |-> TRUE, text |-> SuccessText]

ErrResult(text) == [ok |-> FALSE, text |-> text]

\* `return Err(..)` and the `?` operator on an Err
Fail(text) ==
    /\ pc' = "returned"
    /\ result' = <<ErrResult(text)>>
    /\ panic' = panic

\* the messages of the two panics: slice indexing and Result::unwrap
IndexPanic == "index out of bounds: the len is 1 but the index is 1"

UnwrapPanic == "called Result::unwrap() on an Err value"

\* a panic unwinds out of handle_response: no result, no response
Panic(msg) ==
    /\ pc' = "panicked"
    /\ panic' = <<msg>>
    /\ result' = result

(***************************************************************************)
(* handle_response up to the connection (main.rs 46-84).                   *)
(***************************************************************************)
\* a missing address is taken as the empty address instead of an error
GetParamsDefaultAddress ==
    /\ pc = "params"
    /\ address' = (IF request.address = <<>> THEN <<>> ELSE request.address[1])
    /\ fish_str' \in Texts
    /\ pc' = "parse"
    /\ UNCHANGED <<request, fish, connArg, atoms, win_id, gc_id, nextId, out,
                   sent, queue, nArrived, handled, i, sleeps, result, panic,
                   response, exposes>>

\* 48-61: the address parameter, then the drawing text
GetParams ==
    /\ pc = "params"
    /\ IF request.address = <<>>
       THEN /\ Fail(<<"need address in query params">>)
            /\ UNCHANGED <<address, fish_str>>
       ELSE /\ address' = request.address[1]
            /\ \E time \in TimeParams :
                   fish_str' \in (IF time = <<"bad">> THEN ComebackCsv
                                                      ELSE GenerateCsv)
            /\ pc' = "parse"
            /\ UNCHANGED <<result, panic>>
    /\ UNCHANGED <<request, fish, connArg, atoms, win_id, gc_id, nextId, out,
                   sent, queue, nArrived, handled, i, sleeps, response,
                   exposes>>

\* 66-77: the rows become polylines, or the closure of line 74 panics
Parse ==
    /\ pc = "parse"
    /\ IF ParsePanics(fish_str)
       THEN Panic(IndexPanic) /\ UNCHANGED fish
       ELSE /\ fish' = ParseFish(fish_str)
            /\ pc' = "normalize"
            /\ UNCHANGED <<result, panic>>
    /\ UNCHANGED <<request, address, fish_str, connArg, atoms, win_id, gc_id,
                   nextId, out, sent, queue, nArrived, handled, i, sleeps,
                   response,
                   exposes>>

DefaultDisplay == <<":", "0", ".", "0">>

\* the qualifier appended without looking for the separator
NormalizeAddressAlways(a) == a \o DefaultDisplay

\* 80-82
NormalizeAddress(a) == IF ~Contains(a, ":") THEN a \o DefaultDisplay ELSE a

Normalize ==
    /\ pc = "normalize"
    /\ address' = NormalizeAddress(address)
    /\ pc' = "connect"
    /\ UNCHANGED <<request, fish_str, fish, connArg, atoms, win_id, gc_id,
                   nextId, out, sent, queue, nArrived, handled, i, sleeps,
                   result, panic, response,
                   exposes>>

\* 84: connect(Some(&address))?
Connect ==
    /\ pc = "connect"
    /\ connArg' = Append(connArg, address)
    /\ \/ pc' = "atoms" /\ UNCHANGED <<result, panic>>
       \/ Fail(<<"ConnectError">>)
    /\ UNCHANGED <<request, address, fish_str, fish, atoms, win_id, gc_id,
                   nextId, out, sent, queue, nArrived, handled, i, sleeps,
                   response,
                   exposes>>

(***************************************************************************)
(* Setup (main.rs 87-99 and create_window, 128-179).                       *)
(***************************************************************************)
\* 87: Atoms::new(&conn)?.reply()?
InternAtoms ==
    /\ pc = "atoms"
    /\ \/ atoms' = <<AtomTable>> /\ pc' = "win_id" /\ UNCHANGED <<result, panic>>
       \/ Fail(<<"ReplyError">>) /\ UNCHANGED atoms
    /\ UNCHANGED <<request, address, fish_str, fish, connArg, win_id, gc_id,
                   nextId, out, sent, queue, nArrived, handled, i, sleeps,
                   response,
                   exposes>>

\* 134: conn.generate_id()?
GenerateWinId ==
    /\ pc = "win_id"
    /\ \/ /\ win_id' = <<nextId>>
          /\ nextId' = nextId + 1
          /\ pc' = "create_window"
          /\ UNCHANGED <<result, panic>>
       \/ Fail(<<"IdsExhausted">>) /\ UNCHANGED <<win_id, nextId>>
    /\ UNCHANGED <<request, address, fish_str, fish, connArg, atoms, gc_id,
                   out, sent, queue, nArrived, handled, i, sleeps, response,
                   exposes>>

\* a request is queued, or the connection fails and `?` returns the error
Issue(at, req, next) ==
    /\ pc = at
    /\ \/ out' = Append(out, req) /\ pc' = next /\ UNCHANGED <<result, panic>>
       \/ Fail(<<"ConnectionError">>) /\ UNCHANGED out
    /\ UNCHANGED <<request, address, fish_str, fish, connArg, atoms, win_id,
                   gc_id, nextId, sent, queue, nArrived, handled, i, sleeps,
                   response,
                   exposes>>

\* 139-151
CreateWindow ==
    Issue("create_window",
          Request("CreateWindow", win_id[1], 0, <<Setup.root>>), "wm_name")

\* 154-160
SetWmName ==
    Issue("wm_name",
          Request("ChangeProperty8", win_id[1], 0,
                  <<AtomEnum.WM_NAME, AtomEnum.STRING>>), "net_wm_name")

\* 161-167
SetNetWmName ==
    Issue("net_wm_name",
          Request("ChangeProperty8", win_id[1], 0,
                  <<atoms[1].NET_WM_NAME, atoms[1].UTF8_STRING>>), "wm_protocols")

\* the protocols property is written without the delete-window atom
SetWmProtocolsWrongAtom ==
    Issue("wm_protocols",
          Request("ChangeProperty32", win_id[1], 0,
                  <<atoms[1].WM_PROTOCOLS, AtomEnum.ATOM,
                    atoms[1].UTF8_STRING>>), "map_window")

\* 168-174
SetWmProtocols ==
    Issue("wm_protocols",
          Request("ChangeProperty32", win_id[1], 0,
                  <<atoms[1].WM_PROTOCOLS, AtomEnum.ATOM,
                    atoms[1].WM_DELETE_WINDOW>>), "map_window")

\* 176-178
MapWindow ==
    Issue("map_window", Request("MapWindow", win_id[1], 0, <<>>), "gc_id")

\* the window identifier is used again for the graphics context
GenerateGcIdReused ==
    /\ pc = "gc_id"
    /\ gc_id' = win_id
    /\ pc' = "create_gc"
    /\ UNCHANGED <<request, address, fish_str, fish, connArg, atoms, win_id,
                   nextId, out, sent, queue, nArrived, handled, i, sleeps,
                   result, panic, response, exposes>>

\* 89: conn.generate_id().unwrap()
GenerateGcId ==
    /\ pc = "gc_id"
    /\ \/ /\ gc_id' = <<nextId>>
          /\ nextId' = nextId + 1
          /\ pc' = "create_gc"
          /\ UNCHANGED <<result, panic>>
       \/ Panic(UnwrapPanic) /\ UNCHANGED <<gc_id, nextId>>
    /\ UNCHANGED <<request, address, fish_str, fish, connArg, atoms, win_id,
                   out, sent, queue, nArrived, handled, i, sleeps, response,
                   exposes>>

\* 91-97
CreateGc ==
    Issue("create_gc", Request("CreateGC", win_id[1], gc_id[1], <<>>), "flush")

\* the flush is left out: the queued requests stay queued
FlushToNothing(at, next) ==
    /\ pc = at
    /\ pc' = next
    /\ UNCHANGED <<out, sent, result, panic>>

\* conn.flush()?: everything queued goes to the server
FlushTo(at, next) ==
    /\ pc = at
    /\ \/ /\ sent' = sent \o out
          /\ out' = <<>>
          /\ pc' = next
          /\ UNCHANGED <<result, panic>>
       \/ Fail(<<"ConnectionError">>) /\ UNCHANGED <<out, sent>>

\* 99
FlushSetup ==
    /\ FlushTo("flush", "wait")
    /\ UNCHANGED <<request, address, fish_str, fish, connArg, atoms, win_id,
                   gc_id, nextId, queue, nArrived, handled, i, sleeps,
                   response,
                   exposes>>

(***************************************************************************)
(* The event loop (main.rs 102-125).                                       *)
(***************************************************************************)
InLoop == pc \in {"wait", "poly_line", "sleep", "flush_draw"}

\* the server delivers an event to the open connection
Arrive ==
    /\ InLoop
    /\ nArrived < MaxEvents
    /\ Len(queue) < MaxQueue
    /\ \E ev \in ServerEvents(win_id[1]) : queue' = Append(queue, ev)
    /\ nArrived' = nArrived + 1
    /\ UNCHANGED <<pc, request, address, fish_str, fish, connArg, atoms,
                   win_id, gc_id, nextId, out, sent, handled, i, sleeps,
                   result, panic, response,
                   exposes>>

\* the close test without the format
IsCloseRequestAnyFormat(ev) ==
    /\ ev.window = win_id[1]
    /\ ev.data0 = atoms[1].WM_DELETE_WINDOW

\* the close test without the window
IsCloseRequestAnyWindow(ev) ==
    /\ ev.format = CloseFormat
    /\ ev.data0 = atoms[1].WM_DELETE_WINDOW

\* 116
IsCloseRequest(ev) ==
    /\ ev.format = CloseFormat
    /\ ev.window = win_id[1]
    /\ ev.data0 = atoms[1].WM_DELETE_WINDOW

\* the drawing is done on the first expose only
OnExposeOnce ==
    /\ IF Len(fish) >= 1 /\ exposes = 0
       THEN pc' = "poly_line" /\ i' = 1
       ELSE pc' = "wait" /\ i' = i
    /\ UNCHANGED <<result, panic>>
    /\ exposes' = exposes + 1

\* 106-107: the for loop starts, or ends at once over an empty drawing set
OnExpose ==
    /\ IF Len(fish) >= 1
       THEN pc' = "poly_line" /\ i' = 1
       ELSE pc' = "wait" /\ i' = i
    /\ UNCHANGED <<result, panic>>
    /\ exposes' = exposes + 1

\* the close request is printed and the loop goes on: no break
OnClientMessageNoBreak(ev) ==
    /\ pc' = "wait"
    /\ UNCHANGED <<result, panic, i, exposes>>

\* 114-120, then 125
OnClientMessage(ev) ==
    /\ IF IsCloseRequest(ev)
       THEN pc' = "returned" /\ result' = <<OkResult>> /\ panic' = panic
       ELSE pc' = "wait" /\ UNCHANGED <<result, panic>>
    /\ UNCHANGED <<i, exposes>>

\* the error event is treated like an unknown event: no return
OnErrorIgnored(ev) ==
    /\ pc' = "wait"
    /\ UNCHANGED <<result, panic, i, exposes>>

\* 121
OnError(ev) ==
    /\ Fail(<<"Got an unexpected error: ", ev.detail>>)
    /\ UNCHANGED <<i, exposes>>

\* the loop gives up on the first event it has no arm for
OnOtherGivesUp ==
    /\ Fail(<<"Got an unknown event">>)
    /\ UNCHANGED <<i, exposes>>

\* 122
OnOther ==
    /\ pc' = "wait"
    /\ UNCHANGED <<result, panic, i, exposes>>

\* 104: match event
Dispatch(ev) ==
    CASE ev.type = "Expose" -> OnExpose
      [] ev.type = "ClientMessage" -> OnClientMessage(ev)
      [] ev.type = "Error" -> OnError(ev)
      [] OTHER -> OnOther

\* 103: conn.wait_for_event().unwrap() returns the oldest event, or the
\* connection fails and the unwrap panics
WaitForEvent ==
    /\ pc = "wait"
    /\ \/ /\ queue # <<>>
          /\ queue' = Tail(queue)
          /\ handled' = handled + 1
          /\ Dispatch(Head(queue))
       \/ Panic(UnwrapPanic) /\ UNCHANGED <<queue, handled, i, exposes>>
    /\ UNCHANGED <<request, address, fish_str, fish, connArg, atoms, win_id,
                   gc_id, nextId, out, sent, nArrived, sleeps, response>>

\* the draw request is flushed at once, the pacing delay left out
PolyLineNoSleep ==
    /\ Issue("poly_line", Request("PolyLine", win_id[1], gc_id[1], fish[i]),
             "flush_draw")

\* 108: conn.poly_line(CoordMode::ORIGIN, win_id, gc_id, &poly_line)?
PolyLine ==
    /\ Issue("poly_line", Request("PolyLine", win_id[1], gc_id[1], fish[i]),
             "sleep")

\* 110: thread::sleep(Duration::from_millis(7))
Sleep ==
    /\ pc = "sleep"
    /\ sleeps' = sleeps + 1
    /\ pc' = "flush_draw"
    /\ UNCHANGED <<request, address, fish_str, fish, connArg, atoms, win_id,
                   gc_id, nextId, out, sent, queue, nArrived, handled, i,
                   result, panic, response,
                   exposes>>

\* the for loop is left after its first polyline
FlushDrawFirstOnly ==
    /\ FlushTo("flush_draw", "wait")
    /\ i' = i
    /\ UNCHANGED <<request, address, fish_str, fish, connArg, atoms, win_id,
                   gc_id, nextId, queue, nArrived, handled, sleeps, response,
                   exposes>>

\* 111, then the next polyline or the end of the for loop
FlushDraw ==
    /\ \/ FlushTo("flush_draw", "poly_line") /\ i < Len(fish) /\ i' = i + 1
       \/ FlushTo("flush_draw", "wait") /\ i >= Len(fish) /\ i' = i
    /\ UNCHANGED <<request, address, fish_str, fish, connArg, atoms, win_id,
                   gc_id, nextId, queue, nArrived, handled, sleeps, response,
                   exposes>>

(***************************************************************************)
(* handler (main.rs 37-44): the result becomes the response.               *)
(***************************************************************************)
ResponseOf(res) ==
    IF res.ok
    THEN [status |-> StatusOk, body |-> res.text]
    ELSE [status |-> BadRequest, body |-> <<"Error: ">> \o res.text]

Handler ==
    /\ pc = "returned"
    /\ response' = <<ResponseOf(result[1])>>
    /\ pc' = "responded"
    /\ UNCHANGED <<request, address, fish_str, fish, connArg, atoms, win_id,
                   gc_id, nextId, out, sent, queue, nArrived, handled, i,
                   sleeps, result, panic, exposes>>

Next ==
    \/ GetParams
    \/ Parse
    \/ Normalize
    \/ Connect
    \/ InternAtoms
    \/ GenerateWinId
    \/ CreateWindow
    \/ SetWmName
    \/ SetNetWmName
    \/ SetWmProtocols
    \/ MapWindow
    \/ GenerateGcId
    \/ CreateGc
    \/ FlushSetup
    \/ Arrive
    \/ WaitForEvent
    \/ PolyLine
    \/ Sleep
    \/ FlushDraw
    \/ Handler

Spec == Init /\ [][Next]_vars

\* The invocation runs on one thread that is never held back: a statement
\* that can run does run, and wait_for_event returns once an event is
\* there; a failure of the connection is never forced.
Fairness ==
    /\ WF_vars(WaitForEvent /\ handled' # handled)
    /\ WF_vars(PolyLine)
    /\ WF_vars(Sleep)
    /\ WF_vars(FlushDraw)
    /\ WF_vars(Handler)

FairSpec == Spec /\ Fairness

(***************************************************************************)
(* Properties.                                                             *)
(***************************************************************************)
AllRequests == sent \o out

IsDraw(q) == q.op = "PolyLine"

Draws == SelectSeq(AllRequests, IsDraw)

\* the parser has run on the drawing text
ParseDone == request.address # <<>> /\ pc \notin {"params", "parse"}

\* the parser ended in the panic of line 74
ParsePanicked == panic # <<>> /\ panic[1] = IndexPanic

Rows == Split(fish_str, "\n")

\* consecutive pairs of values as points; an unpaired last value is left out
Pairs(vals) ==
    [k \in 1..(Len(vals) \div 2) |-> [x |-> vals[2 * k - 1], y |-> vals[2 * k]]]

\* the floats of the tokens of a row that parse, in order
RECURSIVE ParsedFloats(_)
ParsedFloats(items) ==
    IF items = <<>> THEN <<>>
    ELSE LET f == ParseF64(Trim(Head(items)))
         IN  (IF f.ok THEN <<f>> ELSE <<>>) \o ParsedFloats(Tail(items))

RowFloats(line) == ParsedFloats(Split(line, ","))

HasBadToken(line) ==
    \E k \in 1..Len(Split(line, ",")) : ~ParseF64(Trim(Split(line, ",")[k])).ok

\* a client message with format 32, for the created window, whose first data
\* word is the resolved WM_DELETE_WINDOW atom
MatchingClose(ev) ==
    /\ ev.type = "ClientMessage"
    /\ ev.format = CloseFormat
    /\ win_id # <<>> /\ ev.window = win_id[1]
    /\ atoms # <<>> /\ ev.data0 = atoms[1].WM_DELETE_WINDOW

\* this step is wait_for_event returning the oldest event
Receives == pc = "wait" /\ queue # <<>> /\ handled' = handled + 1

\* this step issues no request, flushes nothing and handles no event
Quiet ==
    /\ handled' = handled
    /\ out' = out
    /\ sent' = sent
    /\ sleeps' = sleeps

\* C1: when the loop receives a client message with format 32, for the
\* created window, with first data word WM_DELETE_WINDOW, it ends with the
\* success result, set once; after the success result no event is handled,
\* no request is issued and the result never changes, whatever is queued.
C1_CloseTerminatesOnce ==
    [][ /\ (Receives /\ MatchingClose(Head(queue)))
            => (result = <<>> /\ result' = <<OkResult>> /\ pc' = "returned")
        /\ (result # <<>> /\ result[1].ok)
            => (result' = result /\ Quiet /\ pc' \in {"returned", "responded"})
      ]_vars

\* the success response is out and a duplicate close request is still queued
C1_Witness ==
    /\ pc = "responded"
    /\ result = <<OkResult>>
    /\ response = <<[status |-> StatusOk, body |-> SuccessText]>>
    /\ queue # <<>>
    /\ MatchingClose(Head(queue))

\* C2: when the loop, waiting, receives an error event, it ends with a
\* failure result whose text holds the detail of that event, and issues no
\* request in that step; after a failure result no event is handled, no
\* request is issued and nothing is flushed.
C2_ErrorTerminates ==
    [][ /\ (Receives /\ Head(queue).type = "Error")
            => /\ pc' = "returned"
               /\ result' # <<>>
               /\ ~result'[1].ok
               /\ \E k \in 1..Len(result'[1].text) :
                      result'[1].text[k] = Head(queue).detail
               /\ out' = out
               /\ sent' = sent
        /\ (result # <<>> /\ ~result[1].ok)
            => (result' = result /\ Quiet /\ pc' \in {"returned", "responded"})
      ]_vars

\* the failure of an error event is reported while an expose or a client
\* message is still queued behind it
C2_Witness ==
    /\ pc = "responded"
    /\ result = <<ErrResult(<<"Got an unexpected error: ", "BadGC">>)>>
    /\ response # <<>>
    /\ response[1].status = BadRequest
    /\ queue # <<>>
    /\ Head(queue).type \in {"Expose", "ClientMessage"}

\* a fatal failure has happened: an error returned, or an unwrap of an error
FatalFailure ==
    \/ result # <<>> /\ ~result[1].ok
    \/ panic # <<>> /\ panic[1] = UnwrapPanic

\* C3: every fatal failure ends the invocation with a failure result, after
\* at most one connection attempt, and the handler answers it with status
\* 400 and the error text after "Error: "; none ends any other way.
C3_FatalFailureIsErrorResponse ==
    FatalFailure =>
        /\ panic = <<>>
        /\ result # <<>>
        /\ ~result[1].ok
        /\ Len(connArg) <= 1
        /\ pc \in {"returned", "responded"}
        /\ pc = "responded" =>
               response = <<[status |-> BadRequest,
                             body |-> <<"Error: ">> \o result[1].text]>>

\* C4: once the parser has run, every row with an odd number n of parsed
\* values has given the polyline of the pairs of its first n-1 values, and
\* parsing has not panicked.
C4_OddRowDropsLast ==
    ParseDone =>
        \A r \in 1..Len(Rows) :
            LET vals == RowValues(Rows[r])
            IN  Len(vals) % 2 = 1 =>
                    /\ ~ParsePanicked
                    /\ r <= Len(fish)
                    /\ Len(fish[r]) = Len(vals) \div 2
                    /\ fish[r] = Pairs(SubSeq(vals, 1, Len(vals) - 1))

ExamplePolyline == <<[x |-> 0, y |-> 0], [x |-> 10, y |-> 0], [x |-> 10, y |-> 10]>>

\* C5: for the text "0,0,10,0,10,10\n", when the loop is back in Waiting
\* after one expose event, the drawing set is the single polyline
\* (0,0),(10,0),(10,10), one draw request with those points has been issued
\* and one pacing delay performed.
C5_ExampleDrawsOnce ==
    (fish_str = ExampleText /\ pc = "wait" /\ handled = 1 /\ sleeps >= 1) =>
        /\ fish = <<ExamplePolyline>>
        /\ Len(Draws) = 1
        /\ Draws[1].arg = ExamplePolyline
        /\ sleeps = 1

\* C6: no draw request is ever issued for a polyline of fewer than 1 point.
C6_NoEmptyPolylineDrawn ==
    \A k \in 1..Len(AllRequests) :
        IsDraw(AllRequests[k]) => Len(AllRequests[k].arg) >= 1

\* C7: every coordinate of a parsed point is the truncation toward zero of
\* the finite number its token spells: a number outside the signed 16-bit
\* range never becomes a coordinate with another value.
C7_OutOfRangeRejected ==
    ParseDone =>
        \A r \in 1..Len(fish) :
            LET floats == RowFloats(Rows[r])
            IN  \A k \in 1..Len(fish[r]) :
                    /\ floats[2 * k - 1].kind = "finite"
                           => fish[r][k].x = Truncated(floats[2 * k - 1])
                    /\ floats[2 * k].kind = "finite"
                           => fish[r][k].y = Truncated(floats[2 * k])

\* C8: once the parser has run, every row with a token that does not parse
\* has given the polyline of the pairs, in order, of the values of its
\* tokens that do parse; the bad token has not stopped the parser.
C8_BadTokenOnlyDropped ==
    ParseDone =>
        \A r \in 1..Len(Rows) :
            HasBadToken(Rows[r]) =>
                /\ ~ParsePanicked
                /\ r <= Len(fish)
                /\ fish[r] = Pairs(RowValues(Rows[r]))

\* The drawing set of a parse that did not panic holds one polyline per row
\* of the text, and str::split gives at least one row: it is never empty.
DrawingSetNeverEmpty ==
    (ParseDone /\ ~ParsePanicked) => (Len(fish) = Len(Rows) /\ Len(fish) >= 1)

\* C10: every address handed to connect() is the request's address when that
\* holds a ':', and the request's address followed by ":0.0" when it holds
\* none; connect() is called at most once, and only after the normalization.
C10_ConnectAddress ==
    /\ Len(connArg) <= 1
    /\ (pc \in {"params", "parse", "normalize"}) => connArg = <<>>
    /\ \A k \in 1..Len(connArg) :
           /\ request.address # <<>>
           /\ LET a == request.address[1]
              IN  connArg[k] = IF \E j \in 1..Len(a) : a[j] = ":"
                               THEN a
                               ELSE a \o <<":", "0", ".", "0">>

\* connect() was handed "h:0.0" for the address "h"
C10_Witness ==
    /\ request.address = << <<"h">> >>
    /\ connArg = << <<"h", ":", "0", ".", "0">> >>

\* the invocation is over: handle_response has returned or panicked
Ended == pc \in {"returned", "responded", "panicked"}

MissingAddressText == <<"need address in query params">>

\* C11: a request without an address parameter ends at once with the
\* error "need address in query params", answered with status 400 and the
\* text after "Error: "; nothing is parsed, no connection is attempted, no
\* identifier is allocated and no request is issued.
C11_MissingAddress ==
    request.address = <<>> =>
        /\ pc \in {"params", "returned", "responded"}
        /\ connArg = <<>>
        /\ AllRequests = <<>>
        /\ fish = <<>>
        /\ atoms = <<>>
        /\ win_id = <<>>
        /\ gc_id = <<>>
        /\ nextId = Setup.resource_id_base
        /\ handled = 0
        /\ panic = <<>>
        /\ pc # "params" => result = <<ErrResult(MissingAddressText)>>
        /\ pc = "responded" =>
               response = <<[status |-> BadRequest,
                             body |-> <<"Error: ">> \o MissingAddressText]>>

\* the request without an address has been answered
C11_Witness ==
    /\ request.address = <<>>
    /\ pc = "responded"
    /\ response # <<>>
    /\ response[1].status = BadRequest

FlushedDraws == SelectSeq(sent, IsDraw)

\* C12: the draw requests follow the parsed order of the polylines, over
\* and over; the k-th draw request is followed by the k-th pacing delay and
\* then by the flush that sends it, before the next draw request is issued;
\* the loop is in Waiting exactly when every polyline of every expose
\* matched so far has been drawn, paced and flushed.
C12_DrawSleepFlush ==
    LET D == Len(Draws)
        F == Len(FlushedDraws)
        n == Len(fish)
    IN  /\ F <= sleeps
        /\ sleeps <= D
        /\ D <= F + 1
        /\ \A k \in 1..D : Draws[k].arg = fish[((k - 1) % n) + 1]
        /\ InLoop =>
               (pc = "wait" <=> (D = F /\ sleeps = D /\ D = exposes * n))

\* two different polylines have been drawn, paced and flushed, in order
C12_Witness ==
    /\ pc = "wait"
    /\ Len(fish) = 2
    /\ fish[1] # fish[2]
    /\ Len(FlushedDraws) = 2
    /\ sleeps = 2

SetupOps == <<"CreateWindow", "ChangeProperty8", "ChangeProperty8",
              "ChangeProperty32", "MapWindow", "CreateGC">>

\* the requests issued so far start with the setup requests, in order
SetupInOrder ==
    /\ \A k \in 1..Len(AllRequests) :
           AllRequests[k].op = (IF k <= Len(SetupOps) THEN SetupOps[k]
                                                      ELSE "PolyLine")
    /\ Len(AllRequests) >= 2 =>
           AllRequests[2].arg = <<AtomEnum.WM_NAME, AtomEnum.STRING>>
    /\ Len(AllRequests) >= 3 =>
           AllRequests[3].arg = <<AtomTable.NET_WM_NAME, AtomTable.UTF8_STRING>>
    /\ Len(AllRequests) >= 4 =>
           AllRequests[4].arg = <<AtomTable.WM_PROTOCOLS, AtomEnum.ATOM,
                                  AtomTable.WM_DELETE_WINDOW>>
    /\ sent # <<>> => Len(sent) >= Len(SetupOps)
    /\ (InLoop \/ handled > 0) => Len(sent) >= Len(SetupOps)

\* C13: the setup requests are issued in the order create-window, WM_NAME,
\* _NET_WM_NAME, WM_PROTOCOLS with the delete-window atom, map-window,
\* create-gc; nothing is flushed before all six are issued and the loop
\* waits only after that flush; once the invocation has ended, by a failure
\* or otherwise, no further request is issued or flushed.
C13_SetupOrder ==
    /\ []SetupInOrder
    /\ [][Ended => (out' = out /\ sent' = sent /\ nextId' = nextId)]_vars

\* the loop waits for its first event with exactly the six setup requests
\* flushed
C13_Witness ==
    /\ pc = "wait"
    /\ handled = 0
    /\ Len(sent) = Len(SetupOps)
    /\ out = <<>>

\* an event the loop has no arm for: not an expose, not an error, not the
\* close request
Ignorable(ev) == ev.type \notin {"Expose", "Error"} /\ ~MatchingClose(ev)

\* C14: when the loop receives an event that is neither an expose, nor an
\* error, nor a client message with format 32 for the created window with
\* first data word WM_DELETE_WINDOW, it stays in Waiting and nothing but
\* the event queue changes: no request, no flush, no delay, no result.
C14_OtherEventsIgnored ==
    [][ (Receives /\ Ignorable(Head(queue)))
            => /\ pc' = "wait"
               /\ queue' = Tail(queue)
               /\ out' = out
               /\ sent' = sent
               /\ sleeps' = sleeps
               /\ exposes' = exposes
               /\ i' = i
               /\ fish' = fish
               /\ win_id' = win_id
               /\ gc_id' = gc_id
               /\ result' = result
               /\ panic' = panic
               /\ response' = response
      ]_vars

\* the one event delivered was handled, it was no expose, and the loop waits
C14_Witness ==
    /\ pc = "wait"
    /\ nArrived = 1
    /\ handled = 1
    /\ exposes = 0
    /\ result = <<>>

\* C15: the draw requests issued so far are the polylines of the drawing
\* set in parsed order, repeated: each repeats the request one round
\* earlier; when the loop waits or has ended with success, their number is
\* the number of exposes matched times the number of polylines.
C15_SameDrawingEveryExpose ==
    LET n == Len(fish)
    IN  /\ \A k \in 1..Len(Draws) :
               /\ k <= n => Draws[k].arg = fish[k]
               /\ k > n => Draws[k] = Draws[k - n]
        /\ (pc = "wait" \/ (result # <<>> /\ result[1].ok))
               => Len(Draws) = exposes * n

\* two exposes have drawn the two polylines twice
C15_Witness ==
    /\ pc = "wait"
    /\ exposes = 2
    /\ Len(fish) = 2
    /\ Len(FlushedDraws) = 4

\* C16: every identifier handed out is held as the window or the graphics
\* context identifier, each allocated at most once, the two differ, the
\* loop runs with both allocated, and every request issued names that
\* window, every draw request that graphics context.
C16_OneWindowOneGc ==
    /\ nextId = Setup.resource_id_base + Len(win_id) + Len(gc_id)
    /\ Len(win_id) <= 1
    /\ Len(gc_id) <= 1
    /\ (win_id # <<>> /\ gc_id # <<>>) => win_id[1] # gc_id[1]
    /\ InLoop => (win_id # <<>> /\ gc_id # <<>>)
    /\ \A k \in 1..Len(AllRequests) :
           /\ AllRequests[k].window = win_id[1]
           /\ IsDraw(AllRequests[k]) => AllRequests[k].gc = gc_id[1]

\* draw requests of two exposes carry the two identifiers
C16_Witness ==
    /\ exposes = 2
    /\ Len(Draws) >= 2
    /\ win_id # <<>>
    /\ gc_id # <<>>
    /\ Draws[Len(Draws)].window = win_id[1]
    /\ Draws[Len(Draws)].gc = gc_id[1]

\* C17: the success result is set only by the step in which the loop
\* receives a client message with format 32, for the created window, with
\* first data word WM_DELETE_WINDOW; a success response is only the answer
\* to that result, and a panic never comes with a result.
C17_SuccessOnlyOnClose ==
    /\ [][ (result' # result /\ result' # <<>> /\ result'[1].ok)
               => (Receives /\ MatchingClose(Head(queue))) ]_vars
    /\ []((response # <<>> /\ response[1].status = StatusOk)
               => result = <<OkResult>>)
    /\ [](panic # <<>> => result = <<>>)

\* success after an expose and another event were handled first
C17_Witness ==
    /\ pc = "responded"
    /\ result = <<OkResult>>
    /\ handled = 3
    /\ exposes = 1

\* C18: whenever the loop is at wait_for_event, no request is queued
\* unflushed: the six setup requests and every draw request issued have
\* been flushed.
C18_NothingUnflushedWhileWaiting ==
    pc = "wait" =>
        /\ out = <<>>
        /\ Len(sent) >= Len(SetupOps)
        /\ Len(FlushedDraws) = Len(Draws)
        /\ Len(sent) = Len(SetupOps) + exposes * Len(fish)

\* the loop is blocked with no event queued, after a drawing
C18_Witness ==
    /\ pc = "wait"
    /\ queue = <<>>
    /\ exposes = 1
    /\ Len(FlushedDraws) >= 1

Drawing == pc \in {"poly_line", "sleep", "flush_draw"}

\* C19: an event is handled only in Waiting, one per step, the oldest
\* first, and only when every polyline of every expose matched so far has
\* been drawn and flushed; while polylines are drawn the queue only grows
\* at its end and the invocation ends only by the failure of a draw or
\* flush request.
C19_NoInterleaving ==
    [][ /\ handled' # handled
            => /\ pc = "wait"
               /\ queue # <<>>
               /\ queue' = Tail(queue)
               /\ handled' = handled + 1
               /\ out = <<>>
               /\ Len(FlushedDraws) = exposes * Len(fish)
        /\ queue' # queue
            => \/ handled' = handled + 1 /\ queue' = Tail(queue)
               \/ handled' = handled /\ Len(queue') = Len(queue) + 1
                    /\ SubSeq(queue', 1, Len(queue)) = queue
        /\ Drawing
            => /\ handled' = handled
               /\ panic' = panic
               /\ result' # result
                      => result' = <<ErrResult(<<"ConnectionError">>)>>
      ]_vars

\* a close request is queued while a polyline is being drawn
C19_Witness ==
    /\ pc = "sleep"
    /\ i < Len(fish)
    /\ queue # <<>>
    /\ MatchingClose(Head(queue))

\* the event ends the loop when it is received
Terminating(ev) == MatchingClose(ev) \/ ev.type = "Error"

TerminatingQueued == \E k \in 1..Len(queue) : Terminating(queue[k])

\* C20: under the fairness of the sequential control flow, a loop with a
\* close request or an error event delivered to it eventually ends; and the
\* loop is left only by receiving such an event or by a failure of the
\* connection (a draw or flush request returning an error, or
\* wait_for_event failing): never by a limit of its own.
C20_LeavesOnlyOnCloseOrError ==
    /\ (InLoop /\ TerminatingQueued) ~> Ended
    /\ [][ (InLoop /\ ~InLoop')
               => \/ Receives /\ Terminating(Head(queue))
                  \/ Drawing /\ result' = <<ErrResult(<<"ConnectionError">>)>>
                  \/ pc = "wait" /\ panic' = <<UnwrapPanic>>
         ]_vars

\* the loop waits with an expose to draw first and the close request
\* queued behind it
C20_Witness ==
    /\ pc = "wait"
    /\ Len(queue) = 2
    /\ queue[1].type = "Expose"
    /\ MatchingClose(queue[2])

====
